---- MODULE Spec2Model ----
(***************************************************************************)
(* Model of main/lsp/requests/sorbet_workspace_edit.cc: the merge of       *)
(* editor open/change/close notifications and file-system (Watchman)       *)
(* notifications into one map of pending file updates, and the commit of   *)
(* that map to the typechecking pipeline.                                  *)
(*                                                                         *)
(* Texts are sequences of one-character strings.  Paths and URIs are       *)
(* sequences of segments, so that the prefix test on the URI and the       *)
(* URI -> local path translation are computed, not assumed.                *)
(***************************************************************************)
EXTENDS Integers, Sequences, FiniteSets, TLC

VARIABLES
    openFiles,      \* LSPLoop::openFiles: local paths open in the editor
    initialGS,      \* LSPLoop::initialGS: path -> last committed file
    fs,             \* opts.fs: path -> file on disk
    gs,             \* the GlobalState handed in: the FileUpdates typechecked into it
    msgEpoch,       \* the epoch the caller passed, 0 until the commit reads it
    nEdits,         \* how many elements of edits the loop has consumed
    edit,           \* the element the loop consumed last
    before,         \* history: updates as it was before that element
    kinds,          \* history: per path in scope, the types of the edits naming it
    updates,        \* the local UnorderedMap path -> SorbetWorkspaceFileUpdate
    pc,             \* "loop" | "threw" | "done"
    result,         \* the TypecheckRun returned
    pipelineCalls,  \* the FileUpdates passed to runTypechecking, in order
    fileContents,   \* text patching alone: the buffer before the edits
    changes,        \* text patching alone: the contentChanges applied
    patched         \* text patching alone: outcome of the edit loop

vars == <<openFiles, initialGS, fs, gs, msgEpoch, nEdits, edit, before, kinds,
          updates, pc, result, pipelineCalls, fileContents, changes, patched>>

batchVars == <<openFiles, initialGS, fs, gs, msgEpoch, nEdits, edit, before, kinds,
               updates, pc, result, pipelineCalls>>

patchVars == <<fileContents, changes, patched>>

----------------------------------------------------------------------------
(* Bounds *)

\* longest batch (vector of SorbetWorkspaceEdit) explored
MaxEdits == 3

\* longest initial buffer explored when patching alone
MaxLen == 2

\* largest zero-based line number in a range
MaxLine == 1

\* largest zero-based character number in a range
MaxCol == 2

\* most contentChanges in one change event when patching alone
MaxChanges == 2

----------------------------------------------------------------------------
(* Texts *)

NL == "\n"

Chars == {"a", NL}

EmptyText == <<>>

RECURSIVE TextsUpTo(_)
TextsUpTo(n) ==
    IF n = 0 THEN {EmptyText}
    ELSE LET shorter == TextsUpTo(n - 1)
         IN  shorter \cup {Append(t, c) : t \in {s \in shorter : Len(s) = n - 1}, c \in Chars}

Min(a, b) == IF a <= b THEN a ELSE b

----------------------------------------------------------------------------
(* Paths, URIs, the workspace root and the ignore rules *)

rootUri == <<"file://ws">>

rootPath == <<"ws">>

FileA == "a.rb"

FileB == "b.rb"

FileIgnored == "ignored.rb"

IgnorePatterns == {FileIgnored}

PathA == rootPath \o <<FileA>>

PathB == rootPath \o <<FileB>>

PathIgnored == rootPath \o <<FileIgnored>>

\* local paths of the workspace that are not ignored
InScopePaths == {PathA, PathB}

LocalPaths == InScopePaths \cup {PathIgnored}

UriOutside == <<"file://elsewhere", "c.rb">>

Uris == {rootUri \o <<FileA>>, rootUri \o <<FileB>>, rootUri \o <<FileIgnored>>, UriOutside}

\* absl::StartsWith
StartsWith(s, prefix) ==
    /\ Len(s) >= Len(prefix)
    /\ SubSeq(s, 1, Len(prefix)) = prefix

\* LSPLoop::remoteName2Local: the part of the URI after rootUri, under rootPath
remoteName2Local(uri) == rootPath \o SubSeq(uri, Len(rootUri) + 1, Len(uri))

\* FileOps::isFileIgnored(rootPath, localPath, absolute, relative patterns)
isFileIgnored(localPath) == localPath[Len(localPath)] \in IgnorePatterns

----------------------------------------------------------------------------
(* Text patching: the loop of preprocessSorbetWorkspaceEdit(DidChange...) *)

\* a TextDocumentContentChangeEvent; start and end are read only if hasRange
Position(l, c) == [line |-> l, character |-> c]

FullChange(t) ==
    [hasRange |-> FALSE, start |-> Position(0, 0), end |-> Position(0, 0), text |-> t]

RangeChange(s, e, t) == [hasRange |-> TRUE, start |-> s, end |-> e, text |-> t]

\* zero-based indices of the line breaks of a source, in increasing order
NewlineIndices(source) == {i - 1 : i \in {j \in 1..Len(source) : source[j] = NL}}

\* core::File::line_breaks(): -1, then the index of every '\n'
lineBreaks(source) ==
    LET idx == NewlineIndices(source)
        nth(k) == CHOOSE i \in idx : Cardinality({j \in idx : j < i}) = k - 1
    IN  [k \in 1..(Cardinality(idx) + 1) |-> IF k = 1 THEN -1 ELSE nth(k - 1)]

\* core::Loc::pos2Offset(file, pos) with pos one-based: the break that
\* precedes line pos.line, plus the column
pos2Offset(source, pos) == lineBreaks(source)[pos.line] + pos.column

\* the lines a position may name: those the buffer has
HasLine(source, position) == position.line + 1 <= Len(lineBreaks(source))

\* u4 subtraction endOffset - startOffset.  A wrapped difference 2^32 - d does
\* not fit a 32-bit signed integer; it is held as the largest such integer
\* less d, which like 2^32 - d exceeds the length of every buffer.
U4Sub(a, b) == IF a >= b THEN a - b ELSE 2147483647 - (b - a)

Threw == [threw |-> TRUE, text |-> EmptyText]

Returned(t) == [threw |-> FALSE, text |-> t]

\* std::string::replace(pos, count, str): out_of_range if pos > size();
\* otherwise the replaced span is [pos, pos + min(count, size() - pos))
StrReplace(s, replacePos, count, str) ==
    IF replacePos > Len(s)
    THEN Threw
    ELSE LET n == Min(count, Len(s) - replacePos)
         IN  Returned(SubSeq(s, 1, replacePos) \o str \o SubSeq(s, replacePos + n + 1, Len(s)))

\* ApplyChange with the end offset passed as the count of std::string::replace
ApplyChangeEndAsCount(contents, change) ==
    IF change.hasRange
    THEN LET start == [line |-> change.start.line + 1, column |-> change.start.character + 1]
             end == [line |-> change.end.line + 1, column |-> change.end.character + 1]
             startOffset == pos2Offset(contents, start)
             endOffset == pos2Offset(contents, end)
         IN  StrReplace(contents, startOffset, endOffset, change.text)
    ELSE Returned(change.text)

\* one iteration of the loop over contentChanges
ApplyChange(contents, change) ==
    IF change.hasRange
    THEN LET start == [line |-> change.start.line + 1, column |-> change.start.character + 1]
             end == [line |-> change.end.line + 1, column |-> change.end.character + 1]
             startOffset == pos2Offset(contents, start)
             endOffset == pos2Offset(contents, end)
         IN  StrReplace(contents, startOffset, U4Sub(endOffset, startOffset), change.text)
    ELSE Returned(change.text)

\* ApplyChanges with every change applied to the original buffer
RECURSIVE ApplyChangesOnOriginal(_, _)
ApplyChangesOnOriginal(contents, contentChanges) ==
    IF contentChanges = <<>>
    THEN Returned(contents)
    ELSE LET r == ApplyChange(contents, Head(contentChanges))
         IN  IF r.threw THEN Threw
             ELSE IF Tail(contentChanges) = <<>> THEN r
             ELSE ApplyChangesOnOriginal(contents, Tail(contentChanges))

\* the loop over contentChanges: each change is applied to the buffer the
\* changes before it produced; an exception leaves the loop
RECURSIVE ApplyChanges(_, _)
ApplyChanges(contents, contentChanges) ==
    IF contentChanges = <<>>
    THEN Returned(contents)
    ELSE LET r == ApplyChange(contents, Head(contentChanges))
         IN  IF r.threw THEN Threw ELSE ApplyChanges(r.text, Tail(contentChanges))

\* every change names lines of the buffer it is applied to (the domain of
\* pos2Offset); changes after a throwing one are never looked at
RECURSIVE LinesExist(_, _)
LinesExist(contents, contentChanges) ==
    IF contentChanges = <<>>
    THEN TRUE
    ELSE LET c == Head(contentChanges)
             ok == c.hasRange => (HasLine(contents, c.start) /\ HasLine(contents, c.end))
             r == ApplyChange(contents, c)
         IN  /\ ok
             /\ IF r.threw THEN Tail(contentChanges) = <<>>
                ELSE LinesExist(r.text, Tail(contentChanges))

----------------------------------------------------------------------------
(* Files on disk and in the GlobalState *)

NoFile == [exists |-> FALSE, source |-> EmptyText]

FileOf(t) == [exists |-> TRUE, source |-> t]

\* readFile that answers a missing file with a tombstone text, not ""
readFileTombstone(path) == IF fs[path].exists THEN fs[path].source ELSE <<"t">>

\* readFile(path, fs): FileNotFoundException becomes the empty text
readFile(path) == IF fs[path].exists THEN fs[path].source ELSE EmptyText

----------------------------------------------------------------------------
(* The map of pending updates *)

\* a value-initialised SorbetWorkspaceFileUpdate
DefaultUpdate == [contents |-> EmptyText, newlyOpened |-> FALSE, newlyClosed |-> FALSE]

NoUpdates == [p \in {} |-> DefaultUpdate]

\* updates[path] as an rvalue after operator[] has inserted the default
At(map, path) == IF path \in DOMAIN map THEN map[path] ELSE DefaultUpdate

\* updates[path] = entry
Put(map, path, entry) ==
    [p \in (DOMAIN map) \cup {path} |-> IF p = path THEN entry ELSE map[p]]

\* what a preprocess step leaves behind
Kept(map) == [updates |-> map, threw |-> FALSE]

Raised(map) == [updates |-> map, threw |-> TRUE]

\* getFileContents that never looks the path up in initialGS
getFileContentsNoBaseline(map, path) ==
    IF path \in DOMAIN map THEN map[path].contents ELSE EmptyText

\* LSPLoop::getFileContents
getFileContents(map, path) ==
    IF path \in DOMAIN map
    THEN map[path].contents
    ELSE IF initialGS[path].exists THEN initialGS[path].source ELSE EmptyText

\* preprocessSorbetWorkspaceEdit(const DidChangeTextDocumentParams &, updates)
preprocessChange(changeParams, map) ==
    IF StartsWith(changeParams.uri, rootUri)
    THEN LET localPath == remoteName2Local(changeParams.uri)
         IN  IF isFileIgnored(localPath)
             THEN Kept(map)
             ELSE LET r == ApplyChanges(getFileContents(map, localPath), changeParams.contentChanges)
                  IN  IF r.threw
                      THEN Raised(map)
                      ELSE Kept(Put(map, localPath, [At(map, localPath) EXCEPT !.contents = r.text]))
    ELSE Kept(map)

\* preprocessOpen that stores the text and leaves newlyOpened as it was
preprocessOpenNoFlag(openParams, map) ==
    IF StartsWith(openParams.uri, rootUri)
    THEN LET localPath == remoteName2Local(openParams.uri)
         IN  IF ~isFileIgnored(localPath)
             THEN Kept(Put(map, localPath,
                           [At(map, localPath) EXCEPT !.contents = openParams.text,
                                                      !.newlyClosed = FALSE]))
             ELSE Kept(map)
    ELSE Kept(map)

\* preprocessOpen that leaves newlyClosed as it was
preprocessOpenKeepsClosed(openParams, map) ==
    IF StartsWith(openParams.uri, rootUri)
    THEN LET localPath == remoteName2Local(openParams.uri)
         IN  IF ~isFileIgnored(localPath)
             THEN Kept(Put(map, localPath,
                           [At(map, localPath) EXCEPT !.contents = openParams.text,
                                                      !.newlyOpened = TRUE]))
             ELSE Kept(map)
    ELSE Kept(map)

\* preprocessOpen that inserts as emplace does: an entry the batch already
\* holds for the path stays as it is
preprocessOpenEmplace(openParams, map) ==
    IF StartsWith(openParams.uri, rootUri)
    THEN LET localPath == remoteName2Local(openParams.uri)
         IN  IF ~isFileIgnored(localPath)
             THEN IF localPath \in DOMAIN map
                  THEN Kept(map)
                  ELSE Kept(Put(map, localPath,
                                [contents |-> openParams.text, newlyOpened |-> TRUE, newlyClosed |-> FALSE]))
             ELSE Kept(map)
    ELSE Kept(map)

\* preprocessSorbetWorkspaceEdit(const DidOpenTextDocumentParams &, updates)
preprocessOpen(openParams, map) ==
    IF StartsWith(openParams.uri, rootUri)
    THEN LET localPath == remoteName2Local(openParams.uri)
         IN  IF ~isFileIgnored(localPath)
             THEN Kept(Put(map, localPath,
                           [contents |-> openParams.text, newlyOpened |-> TRUE, newlyClosed |-> FALSE]))
             ELSE Kept(map)
    ELSE Kept(map)

\* preprocessClose without the test of the ignore patterns
preprocessCloseNoIgnoreTest(closeParams, map) ==
    IF StartsWith(closeParams.uri, rootUri)
    THEN LET localPath == remoteName2Local(closeParams.uri)
         IN  Kept(Put(map, localPath,
                      [contents |-> readFile(localPath), newlyOpened |-> FALSE, newlyClosed |-> TRUE]))
    ELSE Kept(map)

\* preprocessClose that takes the contents from getFileContents, as a change
\* does, and not from the disk
preprocessCloseKeepsContents(closeParams, map) ==
    IF StartsWith(closeParams.uri, rootUri)
    THEN LET localPath == remoteName2Local(closeParams.uri)
         IN  IF ~isFileIgnored(localPath)
             THEN Kept(Put(map, localPath,
                           [contents |-> getFileContents(map, localPath),
                            newlyOpened |-> FALSE, newlyClosed |-> TRUE]))
             ELSE Kept(map)
    ELSE Kept(map)

\* preprocessClose that leaves newlyOpened as it was
preprocessCloseKeepsOpened(closeParams, map) ==
    IF StartsWith(closeParams.uri, rootUri)
    THEN LET localPath == remoteName2Local(closeParams.uri)
         IN  IF ~isFileIgnored(localPath)
             THEN Kept(Put(map, localPath,
                           [At(map, localPath) EXCEPT !.contents = readFile(localPath),
                                                      !.newlyClosed = TRUE]))
             ELSE Kept(map)
    ELSE Kept(map)

\* preprocessSorbetWorkspaceEdit(const DidCloseTextDocumentParams &, updates)
preprocessClose(closeParams, map) ==
    IF StartsWith(closeParams.uri, rootUri)
    THEN LET localPath == remoteName2Local(closeParams.uri)
         IN  IF ~isFileIgnored(localPath)
             THEN Kept(Put(map, localPath,
                           [contents |-> readFile(localPath), newlyOpened |-> FALSE, newlyClosed |-> TRUE]))
             ELSE Kept(map)
    ELSE Kept(map)

\* watchmanFile that takes a file of openFiles as open although this batch
\* closed it
watchmanFileIgnoresClosed(file, map) ==
    LET localPath == rootPath \o <<file>>
    IN  IF ~isFileIgnored(localPath)
        THEN LET entry == At(map, localPath)
                 isFileOpenInEditor == entry.newlyOpened \/ localPath \in openFiles
             IN  IF ~isFileOpenInEditor
                 THEN Put(map, localPath, [entry EXCEPT !.contents = readFile(localPath)])
                 ELSE Put(map, localPath, entry)
        ELSE map

\* watchmanFile that takes a file as open when this batch opened any file
watchmanFileAnyOpened(file, map) ==
    LET localPath == rootPath \o <<file>>
    IN  IF ~isFileIgnored(localPath)
        THEN LET entry == At(map, localPath)
                 isFileOpenInEditor ==
                     \/ \E p \in DOMAIN map : map[p].newlyOpened
                     \/ (localPath \in openFiles /\ ~entry.newlyClosed)
             IN  IF ~isFileOpenInEditor
                 THEN Put(map, localPath, [entry EXCEPT !.contents = readFile(localPath)])
                 ELSE Put(map, localPath, entry)
        ELSE map

\* the body of the loop over queryResponse.files, for one file
watchmanFile(file, map) ==
    LET localPath == rootPath \o <<file>>
    IN  IF ~isFileIgnored(localPath)
        THEN LET entry == At(map, localPath)
                 isFileOpenInEditor ==
                     entry.newlyOpened \/ (localPath \in openFiles /\ ~entry.newlyClosed)
             IN  IF ~isFileOpenInEditor
                 THEN Put(map, localPath, [entry EXCEPT !.contents = readFile(localPath)])
                 ELSE Put(map, localPath, entry)
        ELSE map

\* preprocessSorbetWorkspaceEdit(const WatchmanQueryResponse &, updates)
RECURSIVE watchmanFiles(_, _)
watchmanFiles(files, map) ==
    IF files = <<>> THEN map
    ELSE watchmanFiles(Tail(files), watchmanFile(Head(files), map))

preprocessWatchman(queryResponse, map) == Kept(watchmanFiles(queryResponse.files, map))

\* the switch of handleSorbetWorkspaceEdits on edit->type
preprocessSorbetWorkspaceEdit(e, map) ==
    CASE e.type = "EditorOpen" -> preprocessOpen(e, map)
      [] e.type = "EditorChange" -> preprocessChange(e, map)
      [] e.type = "EditorClose" -> preprocessClose(e, map)
      [] e.type = "FileSystem" -> preprocessWatchman(e, map)

----------------------------------------------------------------------------
(* The commit *)

\* the orders in which an UnorderedMap may be iterated
IterationOrders(map) ==
    LET n == Cardinality(DOMAIN map)
    IN  {o \in [1..n -> DOMAIN map] : \A i, j \in 1..n : o[i] = o[j] => i = j}

\* FileUpdatesOf with openedFiles filled on newlyClosed too
FileUpdatesOfClosedTwice(epoch, map, order) ==
    [updateEpoch |-> epoch,
     updatedFiles |-> [i \in 1..Len(order) |->
                         [path |-> order[i], source |-> map[order[i]].contents]],
     closedFiles |-> SelectSeq(order, LAMBDA p : map[p].newlyClosed),
     openedFiles |-> SelectSeq(order, LAMBDA p : map[p].newlyClosed)]

\* the FileUpdates built by commitSorbetWorkspaceEdits for one iteration order
FileUpdatesOf(epoch, map, order) ==
    [updateEpoch |-> epoch,
     updatedFiles |-> [i \in 1..Len(order) |->
                         [path |-> order[i], source |-> map[order[i]].contents]],
     closedFiles |-> SelectSeq(order, LAMBDA p : map[p].newlyClosed),
     openedFiles |-> SelectSeq(order, LAMBDA p : map[p].newlyOpened)]

\* TypecheckRun(move(gs)): nothing was typechecked
TypecheckRun(state) == [gs |-> state, typechecked |-> FALSE]

\* runTypechecking(move(gs), move(fileUpdates)): the pipeline's result
runTypechecking(state, fileUpdates) == [gs |-> Append(state, fileUpdates), typechecked |-> TRUE]

\* commitSorbetWorkspaceEdits without the test for an empty map
commitAlways(state, epoch, map, order) ==
    LET fileUpdates == FileUpdatesOf(epoch, map, order)
    IN  [run |-> runTypechecking(state, fileUpdates), calls |-> <<fileUpdates>>]

\* LSPLoop::commitSorbetWorkspaceEdits, for one iteration order of the map:
\* the TypecheckRun returned and the arguments of the calls of runTypechecking
commitSorbetWorkspaceEdits(state, epoch, map, order) ==
    IF DOMAIN map # {}
    THEN LET fileUpdates == FileUpdatesOf(epoch, map, order)
         IN  [run |-> runTypechecking(state, fileUpdates), calls |-> <<fileUpdates>>]
    ELSE [run |-> TypecheckRun(state), calls |-> <<>>]

----------------------------------------------------------------------------
(* Inputs explored for a batch *)

BaselineText == <<"b", "c">>

DiskText == <<"d">>

OpenText == <<"x">>

Epochs == {1, 2}

\* whole-buffer replacement
ReplaceAll == <<FullChange(<<"y">>)>>

\* replacement of the second character of the first line: offsets 1 and 2,
\* within a buffer of two characters, the end past a buffer of one, both past
\* an empty buffer
SecondChar == <<RangeChange(Position(0, 1), Position(0, 2), <<"z">>)>>

BatchChanges == {ReplaceAll, SecondChar}

\* the file lists of the file-system notifications explored
WatchmanFileLists == {<<FileA>>, <<FileB>>, <<FileIgnored>>, <<FileA, FileB>>}

\* the edits, one shape for the four kinds; a kind reads only its own fields
OpenEdit(uri, text) ==
    [type |-> "EditorOpen", uri |-> uri, text |-> text, contentChanges |-> <<>>, files |-> <<>>]

ChangeEdit(uri, contentChanges) ==
    [type |-> "EditorChange", uri |-> uri, text |-> EmptyText,
     contentChanges |-> contentChanges, files |-> <<>>]

CloseEdit(uri) ==
    [type |-> "EditorClose", uri |-> uri, text |-> EmptyText, contentChanges |-> <<>>, files |-> <<>>]

WatchmanEdit(files) ==
    [type |-> "FileSystem", uri |-> <<>>, text |-> EmptyText, contentChanges |-> <<>>, files |-> files]

----------------------------------------------------------------------------
(* handleSorbetWorkspaceEdits as a state machine *)

NoEdit == [type |-> "None", uri |-> <<>>, text |-> EmptyText, contentChanges |-> <<>>, files |-> <<>>]

\* the local paths an edit names
PathsOf(e) ==
    IF e.type = "FileSystem"
    THEN {rootPath \o <<e.files[i]>> : i \in 1..Len(e.files)}
    ELSE IF e.type # "None" /\ StartsWith(e.uri, rootUri) THEN {remoteName2Local(e.uri)} ELSE {}

\* a file is open in the editor only once a batch that opened it was committed
InitialConfigs ==
    {c \in [open : SUBSET InScopePaths, known : SUBSET InScopePaths] : c.open \subseteq c.known}

Init ==
    /\ \E c \in InitialConfigs :
          /\ openFiles = c.open
          /\ initialGS = [p \in LocalPaths |-> IF p \in c.known THEN FileOf(BaselineText) ELSE NoFile]
    /\ fs = [p \in LocalPaths |-> IF p = PathB THEN NoFile ELSE FileOf(DiskText)]
    /\ gs = <<>>
    /\ msgEpoch = 0
    /\ nEdits = 0
    /\ edit = NoEdit
    /\ before = NoUpdates
    /\ kinds = [p \in InScopePaths |-> <<>>]
    /\ updates = NoUpdates
    /\ pc = "loop"
    /\ result = TypecheckRun(<<>>)
    /\ pipelineCalls = <<>>
    /\ fileContents = EmptyText
    /\ changes = <<>>
    /\ patched = [done |-> FALSE, threw |-> FALSE, text |-> EmptyText]

\* an iteration that hands its edit to the pipeline at once, the way
\* handleSorbetWorkspaceEdit does for an edit that arrives alone
LoopStepCommitting(e) ==
    LET r == preprocessSorbetWorkspaceEdit(e, updates)
        c == commitSorbetWorkspaceEdits(gs, msgEpoch, r.updates,
                                        CHOOSE order \in IterationOrders(r.updates) : TRUE)
    IN  /\ pc = "loop"
        /\ nEdits < MaxEdits
        /\ nEdits' = nEdits + 1
        /\ edit' = e
        /\ before' = updates
        /\ kinds' = [p \in InScopePaths |->
                       IF p \in PathsOf(e) THEN Append(kinds[p], e.type) ELSE kinds[p]]
        /\ updates' = r.updates
        /\ pc' = IF r.threw THEN "threw" ELSE "loop"
        /\ result' = IF r.threw THEN result ELSE c.run
        /\ pipelineCalls' = IF r.threw THEN pipelineCalls ELSE pipelineCalls \o c.calls
        /\ UNCHANGED <<openFiles, initialGS, fs, gs, msgEpoch, patchVars>>

\* one iteration of the loop over edits
LoopStep(e) ==
    LET r == preprocessSorbetWorkspaceEdit(e, updates)
    IN  /\ pc = "loop"
        /\ nEdits < MaxEdits
        /\ nEdits' = nEdits + 1
        /\ edit' = e
        /\ before' = updates
        /\ kinds' = [p \in InScopePaths |->
                       IF p \in PathsOf(e) THEN Append(kinds[p], e.type) ELSE kinds[p]]
        /\ updates' = r.updates
        /\ pc' = IF r.threw THEN "threw" ELSE "loop"
        /\ UNCHANGED <<openFiles, initialGS, fs, gs, msgEpoch, result, pipelineCalls, patchVars>>

OpenEdits == {OpenEdit(uri, OpenText) : uri \in Uris}

\* a change of a file out of scope never reads its contentChanges: one list
ChangeEdits ==
    {ChangeEdit(uri, cs) : uri \in {u \in Uris : PathsOf(CloseEdit(u)) \cap InScopePaths # {}},
                           cs \in BatchChanges}
    \cup {ChangeEdit(uri, ReplaceAll) : uri \in Uris}

CloseEdits == {CloseEdit(uri) : uri \in Uris}

WatchmanEdits == {WatchmanEdit(files) : files \in WatchmanFileLists}

\* case SorbetWorkspaceEditType::EditorOpen
EditorOpen == \E e \in OpenEdits : e.type = "EditorOpen" /\ LoopStep(e)

\* case SorbetWorkspaceEditType::EditorChange
EditorChange == \E e \in ChangeEdits : e.type = "EditorChange" /\ LoopStep(e)

\* case SorbetWorkspaceEditType::EditorClose
EditorClose == \E e \in CloseEdits : e.type = "EditorClose" /\ LoopStep(e)

\* case SorbetWorkspaceEditType::FileSystem
FileSystem == \E e \in WatchmanEdits : e.type = "FileSystem" /\ LoopStep(e)

\* the return statement of handleSorbetWorkspaceEdits.  msgEpoch is read
\* nowhere before it, so the caller's choice is drawn here.
Commit ==
    /\ pc = "loop"
    /\ \E epoch \in Epochs, order \in IterationOrders(updates) :
          LET c == commitSorbetWorkspaceEdits(gs, epoch, updates, order)
          IN  /\ msgEpoch' = epoch
              /\ result' = c.run
              /\ pipelineCalls' = pipelineCalls \o c.calls
    /\ pc' = "done"
    /\ UNCHANGED <<openFiles, initialGS, fs, gs, nEdits, edit, before, kinds,
                   updates, patchVars>>

Next == EditorOpen \/ EditorChange \/ EditorClose \/ FileSystem \/ Commit

Spec == Init /\ [][Next]_vars

----------------------------------------------------------------------------
(* Text patching alone: the edit loop applied to every small buffer *)

\* the example of the documentation
HelloWorld == <<"h", "e", "l", "l", "o", NL, "w", "o", "r", "l", "d">>

HelloChange == RangeChange(Position(0, 5), Position(1, 0), <<NL, "!", NL>>)

Buffers == TextsUpTo(MaxLen) \cup {HelloWorld}

Positions == {Position(l, c) : l \in 0..MaxLine, c \in 0..MaxCol}

Replacements == {EmptyText, <<"a">>, <<NL>>}

PatchChanges ==
    {FullChange(t) : t \in Replacements}
    \cup {RangeChange(s, e, t) : s \in Positions, e \in Positions, t \in Replacements}
    \cup {HelloChange}

\* the changes combined into longer lists: those within the first line that
\* add no line
SeqChanges == {c \in PatchChanges : c.start.line = 0 /\ c.end.line = 0 /\ c.text # <<NL>>}

\* every single change, and every list of up to MaxChanges first-line changes
ChangeSeqs ==
    {<<c>> : c \in PatchChanges} \cup UNION {[1..n -> SeqChanges] : n \in 2..MaxChanges}

InitPatch ==
    /\ fileContents \in Buffers
    /\ changes = <<>>
    /\ patched = [done |-> FALSE, threw |-> FALSE, text |-> EmptyText]
    /\ openFiles = {}
    /\ initialGS = [p \in LocalPaths |-> NoFile]
    /\ fs = [p \in LocalPaths |-> NoFile]
    /\ gs = <<>>
    /\ msgEpoch = 1
    /\ nEdits = 0
    /\ edit = NoEdit
    /\ before = NoUpdates
    /\ kinds = [p \in InScopePaths |-> <<>>]
    /\ updates = NoUpdates
    /\ pc = "patch"
    /\ result = TypecheckRun(<<>>)
    /\ pipelineCalls = <<>>

\* lines 44-62 on one buffer and one list of contentChanges
Patch ==
    /\ pc = "patch"
    /\ ~patched.done
    /\ \E cs \in ChangeSeqs :
          /\ LinesExist(fileContents, cs)
          /\ changes' = cs
          /\ LET r == ApplyChanges(fileContents, cs)
             IN  patched' = [done |-> TRUE, threw |-> r.threw, text |-> r.text]
    /\ UNCHANGED <<fileContents, batchVars>>

NextPatch == Patch

SpecPatch == InitPatch /\ [][NextPatch]_vars

----------------------------------------------------------------------------
(* Vocabulary of the properties *)

\* some edit of the batch so far named path and had this type
HasKind(path, type) == \E i \in 1..Len(kinds[path]) : kinds[path][i] = type

\* at least one edit named path, and every one that did had this type
OnlyKind(path, type) ==
    /\ kinds[path] # <<>>
    /\ \A i \in 1..Len(kinds[path]) : kinds[path][i] = type

\* the types of the last two edits that named path
LastTwoKinds(path, first, second) ==
    LET n == Len(kinds[path])
    IN  n >= 2 /\ kinds[path][n - 1] = first /\ kinds[path][n] = second

\* the content the pipeline holds for path once map is committed
ViewOf(map, path) ==
    IF path \in DOMAIN map THEN map[path].contents
    ELSE IF initialGS[path].exists THEN initialGS[path].source ELSE EmptyText

\* the protection rule of the documentation: opened in this batch, or open
\* in the editor and not closed in this batch
IsProtected(path, map) ==
    \/ path \in DOMAIN map /\ map[path].newlyOpened
    \/ path \in openFiles /\ ~(path \in DOMAIN map /\ map[path].newlyClosed)

\* the loop has just consumed a file-system edit naming path
JustWatched(path) == edit.type = "FileSystem" /\ path \in PathsOf(edit)

\* the FileUpdates the pipeline received
Committed == pipelineCalls[1]

\* the sources committed for path
CommittedSources(path) ==
    {Committed.updatedFiles[i].source :
        i \in {j \in 1..Len(Committed.updatedFiles) : Committed.updatedFiles[j].path = path}}

SeqToSet(q) == {q[i] : i \in 1..Len(q)}

----------------------------------------------------------------------------
(* C1 *)

\* C1 (as claimed): when a path is open in the editor and no edit of the batch
\* closed it, a file-system edit naming it leaves the content the pipeline
\* holds for it as it was; when only file-system edits named it, whatever is
\* committed for it is its content from before the batch.
C1_Precedence ==
    \A p \in InScopePaths :
        (JustWatched(p) /\ p \in openFiles /\ ~HasKind(p, "EditorClose"))
        => /\ ViewOf(updates, p) = ViewOf(before, p)
           /\ (pc = "done" /\ OnlyKind(p, "FileSystem") /\ pipelineCalls # <<>>)
                  => CommittedSources(p) \subseteq {initialGS[p].source}

----------------------------------------------------------------------------
(* C2 *)

\* C2 (as claimed): a file-system edit on a protected path neither changes the
\* path's pending entry nor creates one.
C2_ProtectedNoOp ==
    \A p \in InScopePaths :
        (JustWatched(p) /\ IsProtected(p, before))
        => /\ (p \in DOMAIN updates) <=> (p \in DOMAIN before)
           /\ p \in DOMAIN before => updates[p] = before[p]

----------------------------------------------------------------------------
(* C3 *)

\* C3 (as claimed): after Open(P, X) then Close(P), the entry of P has both
\* flags set and the disk content, and P is committed as opened and as closed.
C3_OpenCloseBothFlags ==
    \A p \in InScopePaths :
        LastTwoKinds(p, "EditorOpen", "EditorClose")
        => /\ updates[p].newlyOpened /\ updates[p].newlyClosed
           /\ updates[p].contents = readFile(p)
           /\ pc = "done" => (p \in SeqToSet(Committed.openedFiles)
                              /\ p \in SeqToSet(Committed.closedFiles))

\* C3 (amended): after Open(P, X) then Close(P), the entry of P has
\* newlyOpened reset, newlyClosed set and the disk content, not X; P is
\* committed as closed and not as opened.
C3_OpenCloseResetsOpened ==
    \A p \in InScopePaths :
        LastTwoKinds(p, "EditorOpen", "EditorClose")
        => /\ ~updates[p].newlyOpened /\ updates[p].newlyClosed
           /\ updates[p].contents = readFile(p)
           /\ pc = "done" => (p \notin SeqToSet(Committed.openedFiles)
                              /\ p \in SeqToSet(Committed.closedFiles))

\* a committed batch that opened a.rb with a text other than the one on disk
\* and then closed it
C3_Witness ==
    /\ pc = "done"
    /\ LastTwoKinds(PathA, "EditorOpen", "EditorClose")
    /\ OpenText # readFile(PathA)
    /\ updates[PathA].contents = DiskText

----------------------------------------------------------------------------
(* C4 *)

\* edits were consumed and none named a path in scope: each was outside the
\* workspace root or matched an ignore rule
AllOutOfScope == nEdits > 0 /\ \A p \in InScopePaths : kinds[p] = <<>>

\* C4: runTypechecking is called if and only if the map is not empty when the
\* loop ends, and at most once; a batch of edits that are all out of scope
\* leaves the map empty, calls nothing and returns TypecheckRun of the
\* GlobalState that was passed in.
C4_EmptyBatch ==
    /\ pc # "done" => pipelineCalls = <<>>
    /\ pc = "done" => /\ Len(pipelineCalls) = (IF DOMAIN updates # {} THEN 1 ELSE 0)
                      /\ result.typechecked <=> DOMAIN updates # {}
    /\ AllOutOfScope => DOMAIN updates = {}
    /\ (pc = "done" /\ AllOutOfScope)
          => (pipelineCalls = <<>> /\ result = [gs |-> gs, typechecked |-> FALSE])

\* a returned batch of several edits, none in scope, the last a file-system one
C4_Witness ==
    /\ pc = "done"
    /\ nEdits >= 2
    /\ AllOutOfScope
    /\ edit.type = "FileSystem"
    /\ pipelineCalls = <<>>

----------------------------------------------------------------------------
(* C5 *)

\* the offset of a zero-based (line, character): the start of the line, which
\* is 0 or one past the line's preceding break, plus the character
LineStart(contents, l) ==
    IF l = 0 THEN 0
    ELSE CHOOSE n \in 1..Len(contents) :
            contents[n] = NL /\ Cardinality({j \in 1..n : contents[j] = NL}) = l

OffsetOf(contents, position) == LineStart(contents, position.line) + position.character

\* a ranged change whose offsets are not 0 <= start <= end <= length
OutOfBounds(contents, change) ==
    /\ change.hasRange
    /\ LET s == OffsetOf(contents, change.start)
           e == OffsetOf(contents, change.end)
       IN  s > Len(contents) \/ e > Len(contents) \/ e < s

\* some change of the list is out of bounds for the buffer it is applied to
RECURSIVE AnyOutOfBounds(_, _)
AnyOutOfBounds(contents, contentChanges) ==
    IF contentChanges = <<>> THEN FALSE
    ELSE \/ OutOfBounds(contents, Head(contentChanges))
         \/ LET r == ApplyChange(contents, Head(contentChanges))
            IN  ~r.threw /\ AnyOutOfBounds(r.text, Tail(contentChanges))

\* C5 (as claimed): a change edit with a ranged change out of bounds ends the
\* batch in an error: nothing is stored for the path and nothing is committed.
C5_MalformedEditFatal ==
    \A p \in InScopePaths :
        (edit.type = "EditorChange" /\ p \in PathsOf(edit)
            /\ AnyOutOfBounds(ViewOf(before, p), edit.contentChanges))
        => (pc = "threw" /\ updates = before /\ pipelineCalls = <<>>)

----------------------------------------------------------------------------
(* C6 *)

HelloPatched == <<"h", "e", "l", "l", "o", NL, "!", NL, "w", "o", "r", "l", "d">>

\* C6: one change without a range yields its text; one change with a range
\* whose offsets are s <= e <= length yields the buffer up to s, the text,
\* and the buffer from e on; the documented example gives "hello\n!\nworld".
C6_TextPatcherResult ==
    (patched.done /\ Len(changes) = 1)
    => LET c == changes[1]
           s == OffsetOf(fileContents, c.start)
           e == OffsetOf(fileContents, c.end)
       IN  /\ ~c.hasRange => (~patched.threw /\ patched.text = c.text)
           /\ (c.hasRange /\ s <= e /\ e <= Len(fileContents))
                 => /\ ~patched.threw
                    /\ patched.text = SubSeq(fileContents, 1, s) \o c.text
                                           \o SubSeq(fileContents, e + 1, Len(fileContents))
           /\ (fileContents = HelloWorld /\ c = HelloChange) => patched.text = HelloPatched

\* the documented example has been patched
C6_Witness ==
    /\ patched.done
    /\ fileContents = HelloWorld
    /\ changes = <<HelloChange>>
    /\ OffsetOf(fileContents, HelloChange.start) = 5
    /\ OffsetOf(fileContents, HelloChange.end) = 6
    /\ patched.text = HelloPatched

----------------------------------------------------------------------------
(* C7 *)

\* the first k changes applied one after the other, each to the result of
\* the one before
RECURSIVE Composed(_, _, _)
Composed(base, contentChanges, k) ==
    IF k = 0 THEN Returned(base)
    ELSE LET sofar == Composed(base, contentChanges, k - 1)
         IN  IF sofar.threw THEN Threw ELSE ApplyChange(sofar.text, contentChanges[k])

\* C7: the outcome of a change edit is that of its changes applied one after
\* the other, each to the buffer the earlier ones produced.
C7_SequentialComposition ==
    patched.done
    => LET expected == Composed(fileContents, changes, Len(changes))
       IN  patched.threw = expected.threw /\ patched.text = expected.text

\* two changes went through although the second, applied to the original
\* buffer, has its start past the end
C7_Witness ==
    /\ patched.done
    /\ ~patched.threw
    /\ Len(changes) = 2
    /\ changes[2].hasRange
    /\ OffsetOf(fileContents, changes[2].start) > Len(fileContents)
    /\ ApplyChange(fileContents, changes[2]).threw
    /\ ~OutOfBounds(ApplyChange(fileContents, changes[1]).text, changes[2])

----------------------------------------------------------------------------
(* C8 *)

\* C8: a file-system edit stores the disk content of a path exactly when the
\* path is not protected; protected or not, both flags are as they were
\* (false on first touch), and a protected path keeps its pending contents
\* (a protected path without an entry is left with no disk text).
C8_PrecedenceRule ==
    \A p \in InScopePaths :
        JustWatched(p)
        => LET had == p \in DOMAIN before
           IN  /\ ~IsProtected(p, before) => updates[p].contents = readFile(p)
               /\ IsProtected(p, before)
                     => updates[p].contents = (IF had THEN before[p].contents ELSE EmptyText)
               /\ updates[p].newlyOpened = (had /\ before[p].newlyOpened)
               /\ updates[p].newlyClosed = (had /\ before[p].newlyClosed)

\* a.rb is open in the editor, was closed and then changed in this batch,
\* and the file-system edit that followed put its disk content in place:
\* the close lifted the protection
C8_Witness ==
    /\ JustWatched(PathA)
    /\ PathA \in openFiles
    /\ PathA \in DOMAIN before
    /\ before[PathA].newlyClosed
    /\ before[PathA].contents # readFile(PathA)
    /\ updates[PathA].contents = readFile(PathA)

----------------------------------------------------------------------------
(* C9 *)

\* C9: the FileUpdates handed to runTypechecking has the caller's epoch, one
\* file per pending entry with the entry's contents, hence every path the
\* batch touched exactly once, the paths with newlyOpened as openedFiles and
\* the paths with newlyClosed as closedFiles.
C9_CommittedBatchShape ==
    (pc = "done" /\ DOMAIN updates # {})
    => /\ Len(pipelineCalls) = 1
       /\ Committed.updateEpoch = msgEpoch
       /\ Len(Committed.updatedFiles) = Cardinality(DOMAIN updates)
       /\ \A i \in 1..Len(Committed.updatedFiles) :
              LET f == Committed.updatedFiles[i]
              IN  f.path \in DOMAIN updates /\ f.source = updates[f.path].contents
       /\ \A p \in InScopePaths :
              kinds[p] # <<>>
              => Cardinality({i \in 1..Len(Committed.updatedFiles) :
                                Committed.updatedFiles[i].path = p}) = 1
       /\ SeqToSet(Committed.openedFiles) = {p \in DOMAIN updates : updates[p].newlyOpened}
       /\ SeqToSet(Committed.closedFiles) = {p \in DOMAIN updates : updates[p].newlyClosed}
       /\ Len(Committed.openedFiles) = Cardinality(SeqToSet(Committed.openedFiles))
       /\ Len(Committed.closedFiles) = Cardinality(SeqToSet(Committed.closedFiles))

\* a committed batch that opened a.rb and closed b.rb
C9_Witness ==
    /\ pc = "done"
    /\ DOMAIN updates = {PathA, PathB}
    /\ updates[PathA].newlyOpened
    /\ updates[PathB].newlyClosed
    /\ Len(Committed.updatedFiles) = 2

----------------------------------------------------------------------------
(* C10 *)

\* the loop of handleSorbetWorkspaceEdits over a list of edits, from a map
RECURSIVE FoldEdits(_, _)
FoldEdits(es, map) ==
    IF es = <<>> THEN Kept(map)
    ELSE LET r == preprocessSorbetWorkspaceEdit(Head(es), map)
         IN  IF r.threw THEN r ELSE FoldEdits(Tail(es), r.updates)

\* the same batch outcome: both end in an error, or neither does and the
\* maps path -> (contents, newlyOpened, newlyClosed) are equal
SameOutcome(r1, r2) == r1.threw = r2.threw /\ (~r1.threw => r1.updates = r2.updates)

AllEdits == OpenEdits \cup ChangeEdits \cup CloseEdits \cup WatchmanEdits

UriA == rootUri \o <<FileA>>

UriB == rootUri \o <<FileB>>

\* C10: two adjacent edits that name no common path can be exchanged without
\* changing the outcome of the batch: for the edit the loop consumed last
\* (which left updates, or ended the batch) and every edit that may follow
\* it.  Exchanges of adjacent edits on different paths generate every
\* reordering that keeps each path's order.
C10_DisjointPathsCommute ==
    (edit # NoEdit /\ pc # "done")
    => /\ SameOutcome(FoldEdits(<<edit>>, before), [updates |-> updates, threw |-> pc = "threw"])
       /\ \A e \in AllEdits :
              PathsOf(edit) \cap PathsOf(e) = {}
              => LET exchanged == FoldEdits(<<e, edit>>, before)
                 IN  IF pc = "threw" THEN exchanged.threw
                     ELSE SameOutcome(FoldEdits(<<e>>, updates), exchanged)

\* a.rb was opened, then b.rb closed; closing b.rb first gives the same map
C10_Witness ==
    /\ pc = "loop"
    /\ nEdits = 2
    /\ before = FoldEdits(<<OpenEdit(UriA, OpenText)>>, NoUpdates).updates
    /\ edit = CloseEdit(UriB)
    /\ DOMAIN updates = {PathA, PathB}
    /\ updates = FoldEdits(<<CloseEdit(UriB), OpenEdit(UriA, OpenText)>>, NoUpdates).updates

----------------------------------------------------------------------------
(* C11 *)

\* the entries of map other than path's are those of old
OthersKept(old, map, path) ==
    /\ DOMAIN map = (DOMAIN old) \cup {path}
    /\ \A q \in (DOMAIN old) \ {path} : map[q] = old[q]

\* C11: whatever the map held, once an open edit of a path in scope has been
\* consumed the path's entry is {the edit's text, newlyOpened, not
\* newlyClosed} and every other entry is as it was, and consuming the same
\* edit once more would leave the map exactly as it is.
C11_OpenIdempotent ==
    \A p \in InScopePaths :
        (edit.type = "EditorOpen" /\ p \in PathsOf(edit))
        => /\ pc # "threw"
           /\ updates[p] = [contents |-> edit.text, newlyOpened |-> TRUE, newlyClosed |-> FALSE]
           /\ OthersKept(before, updates, p)
           /\ FoldEdits(<<edit, edit>>, before) = Kept(updates)
           /\ FoldEdits(<<edit>>, updates) = Kept(updates)

\* b.rb was closed, then a.rb opened twice with the same text
C11_Witness ==
    /\ nEdits = 3
    /\ edit = OpenEdit(UriA, OpenText)
    /\ LastTwoKinds(PathA, "EditorOpen", "EditorOpen")
    /\ before = updates
    /\ PathB \in DOMAIN updates
    /\ updates[PathB].newlyClosed

----------------------------------------------------------------------------
(* C12 *)

\* the buffer a change edit of path starts from, by the three cases of the
\* documentation
BaseBuffer(map, path) ==
    IF path \in DOMAIN map THEN map[path].contents
    ELSE IF initialGS[path].exists THEN initialGS[path].source
    ELSE EmptyText

\* the two flags of path's entry, false when there is none
FlagsOf(map, path) ==
    IF path \in DOMAIN map
    THEN <<map[path].newlyOpened, map[path].newlyClosed>>
    ELSE <<FALSE, FALSE>>

\* C12: a change edit of a path in scope whose changes all apply starts from
\* the contents of the path's pending entry if there is one, else from the
\* content initialGS holds for the path, else from the empty text; it stores
\* the patched text as the path's contents, leaves the path's two flags as
\* they were (false and false when it creates the entry) and leaves every
\* other entry alone.
C12_ChangeBaseAndFrame ==
    \A p \in InScopePaths :
        (edit.type = "EditorChange" /\ p \in PathsOf(edit))
        => LET r == Composed(BaseBuffer(before, p), edit.contentChanges, Len(edit.contentChanges))
           IN  ~r.threw
               => /\ pc # "threw"
                  /\ updates[p].contents = r.text
                  /\ FlagsOf(updates, p) = FlagsOf(before, p)
                  /\ OthersKept(before, updates, p)

\* b.rb was opened; then the second character of a.rb, which has no entry
\* and whose content in initialGS is "bc", was replaced
C12_Witness ==
    /\ pc = "loop"
    /\ edit = ChangeEdit(UriA, SecondChar)
    /\ PathA \notin DOMAIN before
    /\ PathB \in DOMAIN before
    /\ before[PathB].newlyOpened
    /\ initialGS[PathA] = FileOf(BaselineText)
    /\ updates[PathA] = [contents |-> <<"b", "z">>, newlyOpened |-> FALSE, newlyClosed |-> FALSE]

----------------------------------------------------------------------------
(* C13 *)

\* C13: whatever the batch did to a path in scope before (nothing, opened
\* it, changed it, refreshed it from the disk), once a close edit of the path
\* has been consumed its entry is {the content of the file on disk, not
\* newlyOpened, newlyClosed}: text of the editor pending for it is gone.
C13_CloseTransition ==
    \A p \in InScopePaths :
        (edit.type = "EditorClose" /\ p \in PathsOf(edit))
        => /\ pc # "threw"
           /\ updates[p] = [contents |-> (IF fs[p].exists THEN fs[p].source ELSE EmptyText),
                            newlyOpened |-> FALSE, newlyClosed |-> TRUE]

\* a.rb was opened with "x", changed to "y", then closed: "d" is on disk
C13_Witness ==
    /\ kinds[PathA] = <<"EditorOpen", "EditorChange", "EditorClose">>
    /\ before[PathA] = [contents |-> <<"y">>, newlyOpened |-> TRUE, newlyClosed |-> FALSE]
    /\ fs[PathA] = FileOf(DiskText)
    /\ updates[PathA].contents = DiskText

----------------------------------------------------------------------------
(* C14 *)

\* C14: whatever the batch did to a path in scope before, once an open edit
\* of the path has been consumed its entry is {the edit's text, newlyOpened,
\* not newlyClosed}; so a path whose last two edits were a close and then an
\* open is never left newlyClosed, whatever edits of other paths follow.
C14_OpenTransition ==
    \A p \in InScopePaths :
        /\ (edit.type = "EditorOpen" /\ p \in PathsOf(edit))
           => (pc # "threw" /\ updates[p].contents = edit.text)
        /\ (kinds[p] # <<>> /\ kinds[p][Len(kinds[p])] = "EditorOpen")
           => <<updates[p].newlyOpened, updates[p].newlyClosed>> = <<TRUE, FALSE>>

\* a.rb was closed, which read "d" from the disk, and then opened with "x"
C14_Witness ==
    /\ LastTwoKinds(PathA, "EditorClose", "EditorOpen")
    /\ edit = OpenEdit(UriA, OpenText)
    /\ before[PathA] = [contents |-> DiskText, newlyOpened |-> FALSE, newlyClosed |-> TRUE]
    /\ updates[PathA] = [contents |-> OpenText, newlyOpened |-> TRUE, newlyClosed |-> FALSE]

----------------------------------------------------------------------------
(* C15 *)

\* the edit names only paths outside the root or matched by an ignore pattern
OutOfScope(e) == e # NoEdit /\ PathsOf(e) \cap InScopePaths = {}

\* C15: an edit of any of the four types whose path is outside the root, or
\* matches an ignore pattern, does nothing: the map of pending updates (its
\* keys, and the contents and flags under each) is after it what it was before
\* it, and nothing is thrown: for the edit the loop consumed last and, while
\* the loop runs, for every such edit that may come next.
C15_OutOfScopeNoOp ==
    /\ OutOfScope(edit) => (updates = before /\ pc # "threw")
    /\ pc = "loop"
       => \A e \in AllEdits :
              OutOfScope(e) => preprocessSorbetWorkspaceEdit(e, updates) = Kept(updates)

\* after two edits in scope that left entries for a.rb and b.rb, an edit out
\* of scope was consumed, and every type of edit has one out of scope, for
\* the path outside the root and for the ignored path
C15_Witness ==
    /\ pc = "loop"
    /\ nEdits = 3
    /\ OutOfScope(edit)
    /\ DOMAIN before = {PathA, PathB}
    /\ before[PathA].newlyOpened
    /\ \A type \in {"EditorOpen", "EditorChange", "EditorClose", "FileSystem"} :
           \E e \in AllEdits : e.type = type /\ OutOfScope(e)
    /\ \A type \in {"EditorOpen", "EditorChange", "EditorClose"} :
           \E e, f \in AllEdits :
               /\ e.type = type /\ f.type = type
               /\ ~StartsWith(e.uri, rootUri)
               /\ StartsWith(f.uri, rootUri) /\ isFileIgnored(remoteName2Local(f.uri))

----------------------------------------------------------------------------
(* C16 *)

\* the FileUpdates call holds exactly the entries of map
HoldsMap(call, map) ==
    /\ Len(call.updatedFiles) = Cardinality(DOMAIN map)
    /\ {call.updatedFiles[i].path : i \in 1..Len(call.updatedFiles)} = DOMAIN map
    /\ \A i \in 1..Len(call.updatedFiles) :
           call.updatedFiles[i].source = map[call.updatedFiles[i].path].contents

\* C16: the edits of a batch are folded one after the other into the one map
\* of pending updates, and the pipeline is called at most once for the batch,
\* by the step that ends it: while edits are consumed the pipeline has seen
\* nothing; the call, if there is one, is the first, is made when no edit is
\* being consumed, carries the whole map the edits left, and no edit is
\* consumed after it.
C16_SingleCommit ==
    [][ /\ nEdits' # nEdits
           => /\ pipelineCalls = <<>> /\ pipelineCalls' = <<>>
              /\ result' = result
              /\ nEdits' = nEdits + 1
              /\ [updates |-> updates', threw |-> pc' = "threw"] = FoldEdits(<<edit'>>, updates)
        /\ (pipelineCalls' # pipelineCalls \/ result' # result)
           => /\ pc = "loop" /\ pc' = "done"
              /\ pipelineCalls = <<>>
              /\ Len(pipelineCalls') = 1
              /\ updates' = updates
              /\ HoldsMap(pipelineCalls'[1], updates)
        /\ pc = "done" => (nEdits' = nEdits /\ updates' = updates /\ pipelineCalls' = pipelineCalls)
      ]_vars

\* a batch of MaxEdits edits that ended with the close of a.rb was committed
\* in one call, which carries what the close read from the disk
C16_Witness ==
    /\ pc = "done"
    /\ nEdits = MaxEdits
    /\ edit = CloseEdit(UriA)
    /\ PathB \in DOMAIN before
    /\ Len(pipelineCalls) = 1
    /\ HoldsMap(Committed, updates)
    /\ CommittedSources(PathA) = {readFile(PathA)}
    /\ Committed.closedFiles = <<PathA>>

----------------------------------------------------------------------------
(* C17 *)

\* fs.readFile(path) finds no file
Missing(path) == ~fs[path].exists

\* C17: when the file a close edit, or a file-system edit on an unprotected
\* path, reads from the disk is missing, nothing is thrown and the loop goes
\* on; the path's contents become the empty text, with the flags a close
\* always sets, or with the flags the entry had for a file-system edit: what
\* the same edit leaves for a file that exists and is empty.
C17_MissingFile ==
    \A p \in InScopePaths :
        Missing(p)
        => /\ (edit.type = "EditorClose" /\ p \in PathsOf(edit))
              => /\ pc = "loop" \/ pc = "done"
                 /\ updates[p] = [contents |-> EmptyText, newlyOpened |-> FALSE, newlyClosed |-> TRUE]
           /\ (JustWatched(p) /\ ~IsProtected(p, before))
              => /\ pc = "loop" \/ pc = "done"
                 /\ updates[p].contents = EmptyText
                 /\ FlagsOf(updates, p) = FlagsOf(before, p)

\* b.rb, which is not on the disk, was opened with "x" and then closed
C17_Witness ==
    /\ Missing(PathB)
    /\ pc = "loop"
    /\ kinds[PathB] = <<"EditorOpen", "EditorClose">>
    /\ edit = CloseEdit(UriB)
    /\ before[PathB] = [contents |-> OpenText, newlyOpened |-> TRUE, newlyClosed |-> FALSE]
    /\ updates[PathB] = [contents |-> EmptyText, newlyOpened |-> FALSE, newlyClosed |-> TRUE]

----------------------------------------------------------------------------
(* C18 *)
(* Batches one after the other.  The handlers above are const and write
   openFiles nowhere: an open or a close is recorded in the flags of the
   path's entry and handed to runTypechecking as openedFiles and closedFiles.
   What becomes of openFiles and of initialGS between two batches is the
   pipeline's doing, taken from the documentation: a path is put into the set
   of open files when it is opened and taken out when it is closed; the
   pipeline holds the files committed to it. *)

\* the state after construction: no file open, no file known to the pipeline
InitSession ==
    /\ Init
    /\ openFiles = {}
    /\ initialGS = [p \in LocalPaths |-> NoFile]

\* from the return of one batch to the entry of the next.  The pipeline holds
\* every file committed to it; its text for such a file is taken to be
\* BaselineText whatever was committed, and the GlobalState handed in is the
\* reference <<>> of the new batch.
NextBatch ==
    /\ pc = "done"
    /\ pc' = "loop"
    /\ openFiles' =
          IF pipelineCalls = <<>> THEN openFiles
          ELSE (openFiles \ SeqToSet(Committed.closedFiles)) \cup SeqToSet(Committed.openedFiles)
    /\ initialGS' =
          [p \in LocalPaths |->
              IF pipelineCalls # <<>> /\ CommittedSources(p) # {}
              THEN FileOf(BaselineText)
              ELSE initialGS[p]]
    /\ gs' = <<>>
    /\ msgEpoch' = 0
    /\ nEdits' = 0
    /\ edit' = NoEdit
    /\ before' = NoUpdates
    /\ kinds' = [p \in InScopePaths |-> <<>>]
    /\ updates' = NoUpdates
    /\ result' = TypecheckRun(<<>>)
    /\ pipelineCalls' = <<>>
    /\ UNCHANGED <<fs, patchVars>>

NextSession == Next \/ NextBatch

SpecSession == InitSession /\ [][NextSession]_vars

\* the paths that line 98 takes as open in the editor, given the map
OpenInEditor == {p \in InScopePaths : IsProtected(p, updates)}

----------------------------------------------------------------------------
(* C19 *)

\* C19: whatever edits the batch has consumed, no entry of the map has
\* newlyOpened and newlyClosed both set; so in the FileUpdates handed to the
\* pipeline no path is in openedFiles and in closedFiles.
C19_FlagsExclusive ==
    /\ \A p \in DOMAIN updates : ~(updates[p].newlyOpened /\ updates[p].newlyClosed)
    /\ pipelineCalls # <<>>
       => SeqToSet(Committed.openedFiles) \cap SeqToSet(Committed.closedFiles) = {}

\* b.rb was opened and then closed, a.rb was opened: the call lists a.rb as
\* opened and b.rb as closed
C19_Witness ==
    /\ pc = "done"
    /\ kinds[PathB] = <<"EditorOpen", "EditorClose">>
    /\ kinds[PathA] = <<"EditorOpen">>
    /\ SeqToSet(Committed.openedFiles) = {PathA}
    /\ SeqToSet(Committed.closedFiles) = {PathB}

----------------------------------------------------------------------------
(* C20 *)

\* C20 (as claimed): for a path of openFiles that initialGS holds and that no
\* open, close or change edit of the batch named before, a file-system edit
\* followed by a change edit stores what the change edit alone stores: its
\* changes applied to the content initialGS holds, and it throws only if they
\* throw on that content.
C20_ProtectedEventNoEffect ==
    \A p \in InScopePaths :
        (/\ p \in openFiles
         /\ initialGS[p].exists
         /\ kinds[p] = <<"FileSystem", "EditorChange">>
         /\ edit.type = "EditorChange"
         /\ p \in PathsOf(edit))
        => LET r == Composed(initialGS[p].source, edit.contentChanges, Len(edit.contentChanges))
           IN  /\ (pc = "threw") = r.threw
               /\ ~r.threw => updates[p].contents = r.text

====
